---------------------------- MODULE Spec2Model ----------------------------
(***************************************************************************)
(* Model of the torrent descriptor decoding pipeline of torrent-cleaner    *)
(* (src/src/torrent.rs): TorrentFile::new reads a file into a buffer,      *)
(* TorrentFile::parse_torrent maps the bencode buffer into the domain      *)
(* model through the bendy pull decoder, and validate_torrent checks the   *)
(* model's invariants.                                                     *)
(*                                                                         *)
(* A buffer is the sequence of its bytes.  The decoder is bendy's: its     *)
(* tokenizer, its structure tracker (keys of a dictionary must ascend),    *)
(* the Drop of its list and dictionary cursors, and FromBencode's          *)
(* from_bencode, which the mappers call on every key, on every text value  *)
(* and on the digits of every integer.  from_bencode(bytes) decodes the    *)
(* bytes as an encoding: it builds a new Decoder over them and takes its   *)
(* first object.  So a key is read as the text "announce" when the key's   *)
(* bytes are 8:announce, the encoding of that text, and not when they are  *)
(* announce; and the digits of an integer, which are no encoding, are      *)
(* never read as a number.                                                 *)
(***************************************************************************)
EXTENDS Integers, Sequences, FiniteSets, TLC

VARIABLES
    file,      \* the content of the descriptor file on disk: [doc, cut, trail]
    buf,       \* the bytes under decode: the Vec<u8> read by TorrentFile::new
    pc,        \* position of TorrentFile::new: "open", "parse", "validate", "done"
    parsed,    \* result of TorrentFile::parse_torrent
    result,    \* result returned by TorrentFile::new
    \* main (src/src/main.rs)
    args,          \* the flags and the subcommand of the command line
    torrent,       \* what parse_torrent(&spinner, path) returned
    tree,          \* the directory `dir` on disk: kind of the entry at each path
    files_map,     \* keys of the map `files`: the paths the descriptor expects
    surface_files, \* first segment of every expected path
    dirs,          \* every prefix of every expected path
    old_files,     \* entries found on disk that are to be removed
    empty_dirs,    \* directories found to hold no file
    confirmed,     \* the user answered yes to the confirmation prompt
    removed        \* what was removed from disk so far: [path, kind]

\* the state of TorrentFile::new and the state of main
decode_vars == <<file, buf, parsed, result>>
main_vars == <<args, torrent, tree, files_map, surface_files, dirs, old_files,
               empty_dirs, confirmed, removed>>

vars == <<file, buf, pc, parsed, result, args, torrent, tree, files_map,
          surface_files, dirs, old_files, empty_dirs, confirmed, removed>>

(***************************************************************************)
(* Bounds of the analysis.                                                 *)
(***************************************************************************)
\* deepest list nesting of the value of an unrecognized key
MaxNest == 6
\* most entries of a generated "files" list
MaxFiles == 2
\* nesting depth (decoder state entries / drop recursion) the process can
\* hold before it runs out of stack or memory
ResourceDepth == 6
\* longest "pieces" byte string given to the chunking
MaxPieces == 41

(***************************************************************************)
(* Byte strings.  The keys the mapper compares against, as ASCII bytes.    *)
(***************************************************************************)
K_announce     == <<97, 110, 110, 111, 117, 110, 99, 101>>
K_info         == <<105, 110, 102, 111>>
K_name         == <<110, 97, 109, 101>>
K_piece_length == <<112, 105, 101, 99, 101, 95, 108, 101, 110, 103, 116, 104>>
K_pieces       == <<112, 105, 101, 99, 101, 115>>
K_length       == <<108, 101, 110, 103, 116, 104>>
K_files        == <<102, 105, 108, 101, 115>>
K_path         == <<112, 97, 116, 104>>
\* "comment": a key none of the mappers recognizes
K_comment      == <<99, 111, 109, 109, 101, 110, 116>>

\* the bytes the tokenizer looks for: - 0 9 : d e i l
Ch_minus == 45
Ch_0     == 48
Ch_9     == 57
Ch_colon == 58
Ch_d     == 100
Ch_e     == 101
Ch_i     == 105
Ch_l     == 108

\* `LET x == v IN F(x)` with v computed once
With(v, F(_)) == F(v)

\* Rust's Ord on byte slices: lexicographic, a proper prefix is smaller.
RECURSIVE BytesLess(_, _)
BytesLess(a, b) ==
    IF b = <<>> THEN FALSE
    ELSE IF a = <<>> THEN TRUE
    ELSE IF Head(a) # Head(b) THEN Head(a) < Head(b)
    ELSE BytesLess(Tail(a), Tail(b))

BytesGeq(a, b) == ~BytesLess(a, b)

\* String::from_utf8 accepts a byte string only if it is UTF-8; the model
\* covers the one-byte (ASCII) encodings, every byte above 127 is invalid.
IsUtf8(s) == \A i \in 1..Len(s) : s[i] < 128

\* the number a run of decimal digits spells (from_str_radix, str::parse)
RECURSIVE NatOf(_)
NatOf(t) ==
    IF t = <<>> THEN 0
    ELSE 10 * NatOf(SubSeq(t, 1, Len(t) - 1)) + (t[Len(t)] - Ch_0)

(***************************************************************************)
(* Tokens of the encoding (bendy::decoding::Token).  A String token holds  *)
(* the content bytes, a Num token the bytes of its digits (and sign).      *)
(***************************************************************************)
TDict   == [k |-> "Dict", s |-> <<>>]
TList   == [k |-> "List", s |-> <<>>]
TEnd    == [k |-> "End",  s |-> <<>>]
TStr(b) == [k |-> "Str",  s |-> b]
TNum(t) == [k |-> "Num",  s |-> t]

E_Syntax       == "bendy: syntax error"
E_Eof          == "bendy: unexpected end of input"
E_EndAtTop     == "bendy: End not allowed at top level"
E_KeyNotString == "bendy: Map keys must be strings"
E_NoMapValue   == "bendy: Missing map value"
E_Unsorted     == "bendy: unsorted keys"
E_TooDeep      == "bendy: nesting too deep"
\* not an error value: the process ran out of stack or memory
E_Exhausted    == "process: resources exhausted"

\* Decoder::take_int: scans the number starting at cur up to the byte term.
\* st is the scanner's state: "Start", "Sign", "Zero", "Digits".  The result
\* is the position of term; 0 when the input ends first; -1 at a byte that
\* may not stand there (a leading zero, "-0", no digit).
RECURSIVE TakeIntEnd(_, _, _, _)
TakeIntEnd(b, cur, term, st) ==
    IF cur > Len(b) THEN 0
    ELSE LET c == b[cur]
         IN  IF st = "Start" THEN
                 IF c = Ch_minus THEN TakeIntEnd(b, cur + 1, term, "Sign")
                 ELSE IF c = Ch_0 THEN TakeIntEnd(b, cur + 1, term, "Zero")
                 ELSE IF c \in (Ch_0 + 1)..Ch_9 THEN TakeIntEnd(b, cur + 1, term, "Digits")
                 ELSE -1
             ELSE IF st = "Zero" THEN
                 IF c = term THEN cur ELSE -1
             ELSE IF st = "Sign" THEN
                 IF c \in (Ch_0 + 1)..Ch_9 THEN TakeIntEnd(b, cur + 1, term, "Digits")
                 ELSE -1
             ELSE IF c \in Ch_0..Ch_9 THEN TakeIntEnd(b, cur + 1, term, "Digits")
             ELSE IF c = term THEN cur
             ELSE -1

RawToken(e, t, n) == [err |-> e, tok |-> t, next |-> n]

\* Decoder::raw_next_token at offset pos (pos <= Len(b)): the token that
\* starts there and the offset behind it, or the error.
RawNextToken(b, pos) ==
    With(b[pos], LAMBDA c :
        IF c = Ch_e THEN RawToken("", TEnd, pos + 1)
        ELSE IF c = Ch_l THEN RawToken("", TList, pos + 1)
        ELSE IF c = Ch_d THEN RawToken("", TDict, pos + 1)
        ELSE IF c = Ch_i THEN
            With(TakeIntEnd(b, pos + 1, Ch_e, "Start"), LAMBDA e :
                IF e = 0 THEN RawToken(E_Eof, TEnd, pos)
                ELSE IF e < 0 THEN RawToken(E_Syntax, TEnd, pos)
                ELSE RawToken("", TNum(SubSeq(b, pos + 1, e - 1)), e + 1))
        ELSE IF c \in Ch_0..Ch_9 THEN
            With(TakeIntEnd(b, pos, Ch_colon, "Start"), LAMBDA e :
                IF e = 0 THEN RawToken(E_Eof, TEnd, pos)
                ELSE IF e < 0 THEN RawToken(E_Syntax, TEnd, pos)
                ELSE With(NatOf(SubSeq(b, pos, e - 1)), LAMBDA len :
                         IF e + len > Len(b) THEN RawToken(E_Eof, TEnd, pos)
                         ELSE RawToken("", TStr(SubSeq(b, e + 1, e + len)), e + len + 1)))
        ELSE RawToken(E_Syntax, TEnd, pos))

(***************************************************************************)
(* bendy's structure tracker.  The decoder keeps a stack of what it is     *)
(* inside of: a list (Seq), a dictionary expecting a key (MapKey, with the *)
(* previous key when there is one) or expecting a value (MapValue).        *)
(***************************************************************************)
SSeq           == [s |-> "Seq",      has |-> FALSE, label |-> <<>>]
SMapKey(h, l)  == [s |-> "MapKey",   has |-> h,     label |-> l]
SMapValue(l)   == [s |-> "MapValue", has |-> TRUE,  label |-> l]

\* Decoder::new(&buf).with_max_depth(<usize>::MAX); usize::MAX is held
\* as the largest integer the checker represents.
max_depth == 2147483647

\* the depth FromBencode::from_bencode gives its decoder for String and u64
EXPECTED_RECURSION_DEPTH == 0

\* Decoder::new(bytes).with_max_depth(max)
NewDecoder(max) == [pos |-> 1, state |-> <<>>, err |-> "", max |-> max]

Latch(d, e) == [d EXCEPT !.err = e]

\* What a List or Dict token opens on the stack.
Opened(tok) ==
    IF tok.k = "List" THEN <<SSeq>>
    ELSE IF tok.k = "Dict" THEN <<SMapKey(FALSE, <<>>)>>
    ELSE <<>>

\* StateTracker::observe_token: the stack after tok, or the structure error.
ObserveToken(d, tok) ==
    LET st   == d.state
        none == st = <<>>
        top  == st[Len(st)]
        rest == IF none THEN <<>> ELSE SubSeq(st, 1, Len(st) - 1)
        bad  == IF none THEN (IF tok.k = "End" THEN E_EndAtTop ELSE "")
                ELSE IF top.s = "Seq" THEN ""
                ELSE IF top.s = "MapKey" THEN
                    (IF tok.k = "End" THEN ""
                     ELSE IF tok.k # "Str" THEN E_KeyNotString
                     ELSE IF top.has /\ BytesGeq(top.label, tok.s) THEN E_Unsorted
                     ELSE "")
                ELSE (IF tok.k = "End" THEN E_NoMapValue ELSE "")
        next == IF none THEN Opened(tok)
                ELSE IF tok.k = "End" THEN rest
                ELSE IF top.s = "Seq" THEN rest \o <<SSeq>> \o Opened(tok)
                ELSE IF top.s = "MapKey" THEN rest \o <<SMapValue(tok.s)>>
                ELSE rest \o <<SMapKey(TRUE, top.label)>> \o Opened(tok)
    IN  IF bad # "" THEN Latch(d, bad)
        ELSE IF Len(next) > d.max THEN Latch(d, E_TooDeep)
        ELSE IF Len(next) > ResourceDepth THEN Latch(d, E_Exhausted)
        ELSE [d EXCEPT !.state = next]

\* Decoder::next_token: [d, tok, eof]; an error is latched in d.err and
\* returned again by every later call.
NextToken(b, d) ==
    IF d.err # "" THEN [d |-> d, tok |-> TEnd, eof |-> FALSE]
    ELSE IF d.pos > Len(b) THEN
        [d |-> IF d.state = <<>> THEN d ELSE Latch(d, E_Eof),
         tok |-> TEnd, eof |-> TRUE]
    ELSE With(RawNextToken(b, d.pos), LAMBDA r :
             IF r.err # "" THEN [d |-> Latch(d, r.err), tok |-> TEnd, eof |-> FALSE]
             ELSE [d |-> ObserveToken([d EXCEPT !.pos = r.next], r.tok),
                   tok |-> r.tok, eof |-> FALSE])

\* Decoder::next_object: [d, obj] with obj.k one of "None" (end of input or
\* End token), "List", "Dict", "Str" (Object::Bytes), "Num" (Object::Integer).
NextObject(b, d) ==
    With(NextToken(b, d), LAMBDA t :
        [d   |-> t.d,
         obj |-> IF t.eof \/ t.tok.k = "End" THEN [TEnd EXCEPT !.k = "None"]
                 ELSE t.tok])

\* The Drop of a ListDecoder or DictDecoder (consume_all, errors ignored but
\* latched): reads on until the stack is back to `depth` entries.
RECURSIVE ConsumeAll(_, _, _)
ConsumeAll(b, d, depth) ==
    IF d.err # "" \/ Len(d.state) <= depth \/ d.pos > Len(b) + 1 THEN d
    ELSE With(NextToken(b, d), LAMBDA t :
             IF t.eof THEN t.d ELSE ConsumeAll(b, t.d, depth))

\* Dropping the Object a pair or element carried: a container is consumed.
\* `depth` is the stack height once the value is complete.
DropObject(b, d, obj, depth) ==
    IF obj.k \in {"List", "Dict"} THEN ConsumeAll(b, d, depth) ELSE d

\* DictDecoder::next_pair: [d, more, key, val]; more = FALSE at the
\* dictionary's End.  An error shows as d.err # "".  key is the content of
\* the key's byte string.
NextPair(b, d) ==
    With(NextObject(b, d), LAMBDA k :
        IF k.d.err # "" \/ k.obj.k # "Str" THEN
            [d |-> k.d, more |-> FALSE, key |-> <<>>, val |-> TEnd]
        ELSE With(NextObject(b, k.d), LAMBDA v :
                 [d |-> v.d, more |-> TRUE, key |-> k.obj.s, val |-> v.obj]))

(***************************************************************************)
(* FromBencode::from_bencode(bytes): a new decoder over the bytes, its     *)
(* next_object, and the type's decode_bencode_object on that object (no    *)
(* object: unexpected end of input).  What follows the first object in the *)
(* bytes is not looked at.                                                 *)
(***************************************************************************)
M_Utf8 == "bendy: malformed content: invalid UTF-8"
M_U64  == "bendy: malformed content: not an unsigned integer"
M_Type == "bendy: unexpected type"

Decoded(e, x) == [ok |-> e = "", err |-> e, v |-> x]

from_bencode(bytes) == NextObject(bytes, NewDecoder(EXPECTED_RECURSION_DEPTH))

\* String::from_bencode: the object must be a byte string of UTF-8 content
String_from_bencode(bytes) ==
    With(from_bencode(bytes), LAMBDA o :
        IF o.d.err # "" THEN Decoded(o.d.err, <<>>)
        ELSE IF o.obj.k = "None" THEN Decoded(E_Eof, <<>>)
        ELSE IF o.obj.k # "Str" THEN Decoded(M_Type, <<>>)
        ELSE IF ~IsUtf8(o.obj.s) THEN Decoded(M_Utf8, <<>>)
        ELSE Decoded("", o.obj.s))

\* <u64>::from_bencode: the object must be an integer without a sign
\* (numbers above u64::MAX are beyond the integers of the analysis)
u64_from_bencode(bytes) ==
    With(from_bencode(bytes), LAMBDA o :
        IF o.d.err # "" THEN Decoded(o.d.err, 0)
        ELSE IF o.obj.k = "None" THEN Decoded(E_Eof, 0)
        ELSE IF o.obj.k # "Num" THEN Decoded(M_Type, 0)
        ELSE IF o.obj.s[1] = Ch_minus THEN Decoded(M_U64, 0)
        ELSE Decoded("", NatOf(o.obj.s)))

(***************************************************************************)
(* Results (anyhow::Result), Option, and the domain model.                 *)
(* kind "ok": the value; "err": an Err returned to the caller, err its     *)
(* root message and ctx the contexts wrapped around it (outermost first);  *)
(* "panic": panic!() was reached; "abort": the process ran out of          *)
(* resources.  d is the decoder when the result was made.  Messages are    *)
(* the source's, without their inner quotes.                               *)
(***************************************************************************)
NoVal == [none |-> TRUE]
None  == [some |-> FALSE, v |-> NoVal]
Some(x) == [some |-> TRUE, v |-> x]

Ok(x, d)      == [kind |-> "ok",    err |-> "",  ctx |-> <<>>, val |-> x,     d |-> d]
Err(msg, d)   == [kind |-> "err",   err |-> msg, ctx |-> <<>>, val |-> NoVal, d |-> d]
Panic(msg, d) == [kind |-> "panic", err |-> msg, ctx |-> <<>>, val |-> NoVal, d |-> d]

\* anyhow's .context(c) on a Result: wraps an Err, leaves the rest alone.
Context(r, c) == IF r.kind = "err" THEN [r EXCEPT !.ctx = <<c>> \o r.ctx] ELSE r

M_Duplicate       == "Duplicate key in dictionary"
M_Empty           == "Metafile is empty"
M_Malformed       == "Metafile is malformed"
M_BadAnnounce     == "Invalid announce data type"
M_BadInfo         == "Invalid info data type"
M_BadName         == "Invalid name data type"
M_BadPieceLength  == "Invalid piece_length data type"
M_BadPieces       == "Invalid pieces data type"
M_BadPiecesLength == "Invalid pieces data length"
M_BadLength       == "Invalid length data type"
M_BadFiles        == "Invalid files data type"
M_BadFilesElem    == "Invalid files element data type"
M_BadPath         == "Invalid path data type"
M_BadPathElem     == "Invalid path element data type"
M_NoAnnounce      == "Key announce is missing in dictionary"
M_NoInfo          == "Key info is missing in dictionary"
M_NoName          == "Key name is missing"
M_NoPieceLength   == "Key piece_length is missing"
M_NoPieces        == "Key pieces is missing"
M_NoLengthOrFiles == "Key length or files is missing"
M_NoItemLength    == "Key length is missing in dictionary"
M_NoItemPath      == "Key path is missing in dictionary"
C_Info            == "Error while parsing info in dictionary"
C_FilesElem       == "Error while parsing files element"
C_File            == "Error while parsing the file"
V_PiecesEmpty     == "Value info.pieces is empty"
V_PieceLengthZero == "Value info.piece_length is zero"
V_LengthZero      == "Value info.length is zero"
V_FilesEmpty      == "Value info.files is empty"
V_PathEmpty       == "Value info.files element path is empty"
V_ItemLengthZero  == "Value info.files element length is zero"

Single(len)      == [tag |-> "Single",   length |-> len, files |-> <<>>]
Multiple(list)   == [tag |-> "Multiple", length |-> 0,   files |-> list]

(***************************************************************************)
(* FileListItem::parse_torrent                                             *)
(***************************************************************************)
\* the while loop over the "path" list: [kind/err/d] with val the segments
RECURSIVE PathLoop(_, _, _)
PathLoop(b, d, path_vec) ==
    With(NextObject(b, d), LAMBDA o :
        IF o.d.err # "" THEN Err(o.d.err, o.d)
        ELSE IF o.obj.k = "None" THEN Ok(path_vec, o.d)
        ELSE IF o.obj.k = "Str" THEN
            With(String_from_bencode(o.obj.s), LAMBDA s :
                IF ~s.ok THEN Err(s.err, o.d)
                ELSE PathLoop(b, o.d, Append(path_vec, s.v)))
        ELSE Err(M_BadPathElem, o.d))

FileListItem_finish(d, length, path) ==
    IF ~length.some THEN Err(M_NoItemLength, d)
    ELSE IF ~path.some THEN Err(M_NoItemPath, d)
    ELSE Ok([length |-> length.v, path |-> path.v], d)

\* the arm of a pair once its key is decoded
RECURSIVE FileListItem_parse_torrent_loop(_, _, _, _)
FileListItem_pair(b, d, p, key, length, path) ==
    IF key = K_length THEN
        IF length.some THEN Panic(M_Duplicate, p.d)
        ELSE IF p.val.k # "Num" THEN Err(M_BadLength, p.d)
        ELSE With(u64_from_bencode(p.val.s), LAMBDA n :
                 IF ~n.ok THEN Err(n.err, p.d)
                 ELSE FileListItem_parse_torrent_loop(b, p.d, Some(n.v), path))
    ELSE IF key = K_path THEN
        IF path.some THEN Panic(M_Duplicate, p.d)
        ELSE IF p.val.k # "List" THEN Err(M_BadPath, p.d)
        ELSE With(PathLoop(b, p.d, <<>>), LAMBDA l :
                 IF l.kind # "ok" THEN l
                 ELSE FileListItem_parse_torrent_loop(b, l.d, length, Some(l.val)))
    ELSE With(DropObject(b, p.d, p.val, Len(d.state)), LAMBDA dropped :
             FileListItem_parse_torrent_loop(b, dropped, length, path))

FileListItem_parse_torrent_loop(b, d, length, path) ==
    With(NextPair(b, d), LAMBDA p :
        IF p.d.err # "" THEN Err(p.d.err, p.d)
        ELSE IF ~p.more THEN FileListItem_finish(p.d, length, path)
        ELSE With(String_from_bencode(p.key), LAMBDA key :
                 IF ~key.ok THEN Err(key.err, p.d)
                 ELSE FileListItem_pair(b, d, p, key.v, length, path)))

FileListItem_parse_torrent(b, d) ==
    FileListItem_parse_torrent_loop(b, d, None, None)

(***************************************************************************)
(* MetaFileInfo::parse_torrent                                             *)
(***************************************************************************)
\* SplitChunks with `s = b` left out: every chunk is the first 20 bytes
RECURSIVE SplitChunks_NoAdvance(_, _)
SplitChunks_NoAdvance(s, count) ==
    IF count = 0 THEN <<>>
    ELSE <<SubSeq(s, 1, 20)>> \o SplitChunks_NoAdvance(s, count - 1)

\* the split_first_chunk loop: `count` consecutive 20-byte arrays of s
RECURSIVE SplitChunks(_, _)
SplitChunks(s, count) ==
    IF count = 0 THEN <<>>
    ELSE <<SubSeq(s, 1, 20)>> \o SplitChunks(SubSeq(s, 21, Len(s)), count - 1)

\* the Object::Bytes arm of "pieces"
ParsePieces(s, d) ==
    IF Len(s) % 20 # 0 THEN Err(M_BadPiecesLength, d)
    ELSE Ok(SplitChunks(s, Len(s) \div 20), d)

\* the while loop over the "files" list
RECURSIVE FilesLoop(_, _, _)
FilesLoop(b, d, files) ==
    With(NextObject(b, d), LAMBDA o :
        IF o.d.err # "" THEN Err(o.d.err, o.d)
        ELSE IF o.obj.k = "None" THEN Ok(files, o.d)
        ELSE IF o.obj.k = "Dict" THEN
            With(Context(FileListItem_parse_torrent(b, o.d), C_FilesElem), LAMBDA f :
                IF f.kind # "ok" THEN f
                ELSE FilesLoop(b, f.d, Append(files, f.val)))
        ELSE Err(M_BadFilesElem, o.d))

\* MetaFileInfo_finish with unwrap_or_default() for piece_length
MetaFileInfo_finish_Default(d, name, piece_length, pieces, file_list) ==
    IF ~name.some THEN Err(M_NoName, d)
    ELSE IF ~pieces.some THEN Err(M_NoPieces, d)
    ELSE IF ~file_list.some THEN Err(M_NoLengthOrFiles, d)
    ELSE Ok([name |-> name.v,
             piece_length |-> IF piece_length.some THEN piece_length.v ELSE 0,
             pieces |-> pieces.v, file_list |-> file_list.v], d)

MetaFileInfo_finish(d, name, piece_length, pieces, file_list) ==
    IF ~name.some THEN Err(M_NoName, d)
    ELSE IF ~piece_length.some THEN Err(M_NoPieceLength, d)
    ELSE IF ~pieces.some THEN Err(M_NoPieces, d)
    ELSE IF ~file_list.some THEN Err(M_NoLengthOrFiles, d)
    ELSE Ok([name |-> name.v, piece_length |-> piece_length.v,
             pieces |-> pieces.v, file_list |-> file_list.v], d)

\* the arm of a pair once its key is decoded
RECURSIVE MetaFileInfo_parse_torrent_loop(_, _, _, _, _, _)
MetaFileInfo_pair(b, d, p, key, name, piece_length, pieces, file_list) ==
    IF key = K_name THEN
        IF name.some THEN Panic(M_Duplicate, p.d)
        ELSE IF p.val.k # "Str" THEN Err(M_BadName, p.d)
        ELSE With(String_from_bencode(p.val.s), LAMBDA s :
                 IF ~s.ok THEN Err(s.err, p.d)
                 ELSE MetaFileInfo_parse_torrent_loop(
                          b, p.d, Some(s.v), piece_length, pieces, file_list))
    ELSE IF key = K_piece_length THEN
        IF piece_length.some THEN Panic(M_Duplicate, p.d)
        ELSE IF p.val.k # "Num" THEN Err(M_BadPieceLength, p.d)
        ELSE With(u64_from_bencode(p.val.s), LAMBDA n :
                 IF ~n.ok THEN Err(n.err, p.d)
                 ELSE MetaFileInfo_parse_torrent_loop(
                          b, p.d, name, Some(n.v), pieces, file_list))
    ELSE IF key = K_pieces THEN
        IF pieces.some THEN Panic(M_Duplicate, p.d)
        ELSE IF p.val.k # "Str" THEN Err(M_BadPieces, p.d)
        ELSE With(ParsePieces(p.val.s, p.d), LAMBDA c :
                 IF c.kind # "ok" THEN c
                 ELSE MetaFileInfo_parse_torrent_loop(
                          b, p.d, name, piece_length, Some(c.val), file_list))
    ELSE IF key = K_length THEN
        IF file_list.some THEN Panic(M_Duplicate, p.d)
        ELSE IF p.val.k # "Num" THEN Err(M_BadLength, p.d)
        ELSE With(u64_from_bencode(p.val.s), LAMBDA n :
                 IF ~n.ok THEN Err(n.err, p.d)
                 ELSE MetaFileInfo_parse_torrent_loop(
                          b, p.d, name, piece_length, pieces, Some(Single(n.v))))
    ELSE IF key = K_files THEN
        IF file_list.some THEN Panic(M_Duplicate, p.d)
        ELSE IF p.val.k # "List" THEN Err(M_BadFiles, p.d)
        ELSE With(FilesLoop(b, p.d, <<>>), LAMBDA l :
                 IF l.kind # "ok" THEN l
                 ELSE MetaFileInfo_parse_torrent_loop(
                          b, l.d, name, piece_length, pieces, Some(Multiple(l.val))))
    ELSE With(DropObject(b, p.d, p.val, Len(d.state)), LAMBDA dropped :
             MetaFileInfo_parse_torrent_loop(
                 b, dropped, name, piece_length, pieces, file_list))

MetaFileInfo_parse_torrent_loop(b, d, name, piece_length, pieces, file_list) ==
    With(NextPair(b, d), LAMBDA p :
        IF p.d.err # "" THEN Err(p.d.err, p.d)
        ELSE IF ~p.more THEN
            MetaFileInfo_finish(p.d, name, piece_length, pieces, file_list)
        ELSE With(String_from_bencode(p.key), LAMBDA key :
                 IF ~key.ok THEN Err(key.err, p.d)
                 ELSE MetaFileInfo_pair(
                          b, d, p, key.v, name, piece_length, pieces, file_list)))

MetaFileInfo_parse_torrent(b, d) ==
    MetaFileInfo_parse_torrent_loop(b, d, None, None, None, None)

(***************************************************************************)
(* TorrentFile::parse_torrent                                              *)
(***************************************************************************)
\* "No more data should be left", then the two missing-key checks
TorrentFile_finish(b, d, announce, info) ==
    With(NextObject(b, d), LAMBDA o :
        IF o.d.err # "" THEN Err(o.d.err, o.d)
        ELSE IF o.obj.k # "None" THEN Err(M_Malformed, o.d)
        ELSE IF ~announce.some THEN Err(M_NoAnnounce, o.d)
        ELSE IF ~info.some THEN Err(M_NoInfo, o.d)
        ELSE Ok([announce |-> announce.v, info |-> info.v], o.d))

\* the arm of a pair once its key is decoded
RECURSIVE TorrentFile_parse_torrent_loop(_, _, _, _)
TorrentFile_pair(b, d, p, key, announce, info) ==
    IF key = K_announce THEN
        IF announce.some THEN Panic(M_Duplicate, p.d)
        ELSE IF p.val.k # "Str" THEN Err(M_BadAnnounce, p.d)
        ELSE With(String_from_bencode(p.val.s), LAMBDA s :
                 IF ~s.ok THEN Err(s.err, p.d)
                 ELSE TorrentFile_parse_torrent_loop(b, p.d, Some(s.v), info))
    ELSE IF key = K_info THEN
        IF info.some THEN Panic(M_Duplicate, p.d)
        ELSE IF p.val.k # "Dict" THEN Err(M_BadInfo, p.d)
        ELSE With(Context(MetaFileInfo_parse_torrent(b, p.d), C_Info), LAMBDA i :
                 IF i.kind # "ok" THEN i
                 ELSE TorrentFile_parse_torrent_loop(b, i.d, announce, Some(i.val)))
    ELSE With(DropObject(b, p.d, p.val, Len(d.state)), LAMBDA dropped :
             TorrentFile_parse_torrent_loop(b, dropped, announce, info))

TorrentFile_parse_torrent_loop(b, d, announce, info) ==
    With(NextPair(b, d), LAMBDA p :
        IF p.d.err # "" THEN Err(p.d.err, p.d)
        ELSE IF ~p.more THEN TorrentFile_finish(b, p.d, announce, info)
        ELSE With(String_from_bencode(p.key), LAMBDA key :
                 IF ~key.ok THEN Err(key.err, p.d)
                 ELSE TorrentFile_pair(b, d, p, key.v, announce, info)))

\* A returning mapper drops the decoders it holds, which read on to the end
\* of the top-level value; that, as every read, can exhaust the process.
Unwound(b, r) ==
    IF r.d.err = E_Exhausted \/ ConsumeAll(b, r.d, 0).err = E_Exhausted
    THEN [r EXCEPT !.kind = "abort", !.err = E_Exhausted, !.ctx = <<>>]
    ELSE r

\* the match on the first object of the buffer
TorrentFile_parse_torrent_top(b) ==
    With(NextObject(b, NewDecoder(max_depth)), LAMBDA o :
        IF o.d.err # "" THEN Err(o.d.err, o.d)
        ELSE IF o.obj.k = "None" THEN Err(M_Empty, o.d)
        ELSE IF o.obj.k = "Dict" THEN
            TorrentFile_parse_torrent_loop(b, o.d, None, None)
        ELSE Err(M_Malformed, o.d))

TorrentFile_parse_torrent(b) == Unwound(b, TorrentFile_parse_torrent_top(b))

(***************************************************************************)
(* TorrentFile::validate_torrent                                           *)
(***************************************************************************)
\* ValidateEntries without the entry.length check
RECURSIVE ValidateEntries_SkipLength(_, _)
ValidateEntries_SkipLength(list, i) ==
    IF i > Len(list) THEN ""
    ELSE IF Len(list[i].path) = 0 THEN V_PathEmpty
    ELSE ValidateEntries_SkipLength(list, i + 1)

\* the for loop over the Multiple list: the first failing entry's error
RECURSIVE ValidateEntries(_, _)
ValidateEntries(list, i) ==
    IF i > Len(list) THEN ""
    ELSE IF Len(list[i].path) = 0 THEN V_PathEmpty
    ELSE IF list[i].length = 0 THEN V_ItemLengthZero
    ELSE ValidateEntries(list, i + 1)

\* ValidationError with the piece_length check moved before the pieces check
ValidationError_Swapped(t) ==
    IF t.info.piece_length = 0 THEN V_PieceLengthZero
    ELSE IF Len(t.info.pieces) = 0 THEN V_PiecesEmpty
    ELSE IF t.info.file_list.tag = "Single" THEN
        (IF t.info.file_list.length = 0 THEN V_LengthZero ELSE "")
    ELSE IF Len(t.info.file_list.files) = 0 THEN V_FilesEmpty
    ELSE ValidateEntries(t.info.file_list.files, 1)

\* the error validate_torrent returns for t, "" when it returns Ok(t)
ValidationError(t) ==
    IF Len(t.info.pieces) = 0 THEN V_PiecesEmpty
    ELSE IF t.info.piece_length = 0 THEN V_PieceLengthZero
    ELSE IF t.info.file_list.tag = "Single" THEN
        (IF t.info.file_list.length = 0 THEN V_LengthZero ELSE "")
    ELSE IF Len(t.info.file_list.files) = 0 THEN V_FilesEmpty
    ELSE ValidateEntries(t.info.file_list.files, 1)

validate_torrent(t) ==
    IF ValidationError(t) # "" THEN Err(ValidationError(t), NewDecoder(max_depth))
    ELSE Ok(t, NewDecoder(max_depth))

(***************************************************************************)
(* Descriptor files.  A file's content is described by the bencode value   *)
(* it spells (doc), a number of bytes cut from the value's end, and the    *)
(* bytes that follow it (trail).  Values: byte string, integer, list of    *)
(* values, dictionary as the sequence of its pairs in file order, each     *)
(* key being the content of the key's byte string.                         *)
(***************************************************************************)
VBytes(b) == [t |-> "bytes", s |-> b,    n |-> 0, items |-> <<>>]
VInt(i)   == [t |-> "int",   s |-> <<>>, n |-> i, items |-> <<>>]
VList(l)  == [t |-> "list",  s |-> <<>>, n |-> 0, items |-> l]
VDict(ps) == [t |-> "dict",  s |-> <<>>, n |-> 0, items |-> ps]
Pair(k, v) == [key |-> k, val |-> v]

\* the decimal digits of n
RECURSIVE DecText(_)
DecText(n) ==
    IF n < 0 THEN <<Ch_minus>> \o DecText(-n)
    ELSE IF n < 10 THEN <<Ch_0 + n>>
    ELSE DecText(n \div 10) \o <<Ch_0 + (n % 10)>>

\* the encoding of the byte string s: its length, a colon, its bytes
Enc(s) == DecText(Len(s)) \o <<Ch_colon>> \o s

\* the bytes of the encoding of v
RECURSIVE Encode(_)
RECURSIVE EncodeItems(_, _)
Encode(v) ==
    IF v.t = "bytes" THEN Enc(v.s)
    ELSE IF v.t = "int" THEN <<Ch_i>> \o DecText(v.n) \o <<Ch_e>>
    ELSE IF v.t = "list" THEN <<Ch_l>> \o EncodeItems(v.items, FALSE) \o <<Ch_e>>
    ELSE <<Ch_d>> \o EncodeItems(v.items, TRUE) \o <<Ch_e>>
EncodeItems(items, pairs) ==
    IF items = <<>> THEN <<>>
    ELSE (IF pairs THEN Enc(Head(items).key) \o Encode(Head(items).val)
          ELSE Encode(Head(items)))
         \o EncodeItems(Tail(items), pairs)

FileOf(doc) == [doc |-> doc, cut |-> 0, trail |-> <<>>]

\* the file's bytes
Content(f) ==
    LET e == Encode(f.doc)
    IN  SubSeq(e, 1, Len(e) - f.cut) \o f.trail

\* all orderings of a sequence
Perms(q) ==
    LET n == Len(q)
    IN  { [i \in 1..n |-> q[f[i]]] :
            f \in { g \in [1..n -> 1..n] : \A i, j \in 1..n : g[i] = g[j] => i = j } }

\* q with x put at position i
InsertAt(q, i, x) == SubSeq(q, 1, i - 1) \o <<x>> \o SubSeq(q, i, Len(q))

\* all subsequences of q (elements kept in order)
RECURSIVE SubSeqs(_)
SubSeqs(q) ==
    IF q = <<>> THEN {<<>>}
    ELSE LET r == SubSeqs(Tail(q))
         IN  r \cup { <<Head(q)>> \o x : x \in r }

\* all sequences over S of length at most n
RECURSIVE SeqsUpTo(_, _)
SeqsUpTo(S, n) ==
    IF n = 0 THEN {<<>>}
    ELSE LET r == SeqsUpTo(S, n - 1)
         IN  r \cup { Append(x, e) : x \in r, e \in S }

\* k lists inside each other, the innermost empty
RECURSIVE Nested(_)
Nested(k) == IF k <= 1 THEN VList(<<>>) ELSE VList(<<Nested(k - 1)>>)

\* ps with pair x put before the first pair whose key is not smaller
RECURSIVE InsertSorted(_, _)
InsertSorted(ps, x) ==
    IF ps = <<>> THEN <<x>>
    ELSE IF BytesLess(Head(ps).key, x.key) THEN <<Head(ps)>> \o InsertSorted(Tail(ps), x)
    ELSE <<x>> \o ps

\* ps in ascending key order, the order the decoder asks for
RECURSIVE SortPairs(_)
SortPairs(ps) == IF ps = <<>> THEN <<>> ELSE InsertSorted(SortPairs(Tail(ps)), Head(ps))

B_url  == <<117, 114, 108>>
B_pkg  == <<112, 107, 103>>
B_a    == <<97>>
B_b    == <<98>>
BytesOfLen(n) == [i \in 1..n |-> i]

\* The two forms a text (a key, a name, a path segment) is written in.
\* Plain: the text is the content of the byte string, as the descriptor
\* format has it.  Wrapped: the content is itself the encoding of the text,
\* the form from_bencode reads the text from.
Wrapped(s) == Enc(s)
Form(w, s) == IF w THEN Wrapped(s) ELSE s

P_announce(w)     == Pair(Form(w, K_announce), VBytes(Form(w, B_url)))
P_name(w)         == Pair(Form(w, K_name), VBytes(Form(w, B_pkg)))
P_piece_length(w) == Pair(Form(w, K_piece_length), VInt(16384))
P_pieces(w)       == Pair(Form(w, K_pieces), VBytes(BytesOfLen(20)))
P_length(w)       == Pair(Form(w, K_length), VInt(100))
P_item_length(w)  == Pair(Form(w, K_length), VInt(5))
P_item_path(w)    == Pair(Form(w, K_path), VList(<<VBytes(Form(w, B_a))>>))
P_files(w, items) == Pair(Form(w, K_files), VList(items))
P_info(w, ps)     == Pair(Form(w, K_info), VDict(ps))

\* valid descriptors: one file, several files
ItemPairs(w)  == SortPairs(<<P_item_length(w), P_item_path(w)>>)
SingleInfo(w) == SortPairs(<<P_length(w), P_name(w), P_piece_length(w), P_pieces(w)>>)
MultiInfo(w)  == SortPairs(<<P_files(w, <<VDict(ItemPairs(w))>>), P_name(w),
                             P_piece_length(w), P_pieces(w)>>)
\* an "info" without any integer, and one whose "files" entry has none
OpenInfo(w)   == SortPairs(<<P_files(w, <<>>), P_name(w), P_pieces(w)>>)
PathInfo(w)   == SortPairs(<<P_files(w, <<VDict(<<P_item_path(w)>>)>>), P_name(w),
                             P_pieces(w)>>)
Infos(w)      == {SingleInfo(w), MultiInfo(w), OpenInfo(w), PathInfo(w)}
TopOf(w, info) == SortPairs(<<P_announce(w), P_info(w, info)>>)
Tops(w)       == { TopOf(w, i) : i \in Infos(w) } \cup { <<P_announce(w)>> }

\* the same pairs in every key order, at each of the three dictionary levels
OrderFilesOf(w) ==
    { FileOf(VDict(t)) : t \in UNION { Perms(TopOf(w, i)) : i \in Perms(SingleInfo(w)) } }
    \cup
    { FileOf(VDict(t)) :
        t \in UNION { Perms(TopOf(w, <<P_files(w, <<VDict(it)>>)>> \o i)) :
                        it \in Perms(ItemPairs(w)),
                        i \in Perms(<<P_name(w), P_piece_length(w), P_pieces(w)>>) } }
    \cup
    { FileOf(VDict(TopOf(w, i))) : i \in Perms(MultiInfo(w)) }

OrderFiles == OrderFilesOf(FALSE) \cup OrderFilesOf(TRUE)

\* ps with pair k a second time, at position at
Again(ps, k, at) == InsertAt(ps, at, ps[k])
\* ps with pair k a second time behind it, under a key that spells the same
\* text followed by a further byte
Padded(ps, k) == InsertAt(ps, k + 1, [ps[k] EXCEPT !.key = ps[k].key \o <<33>>])

\* every way of putting a pair of ps a second time
Doubled(w, ps) ==
    { Again(ps, k, at) : k \in 1..Len(ps), at \in 1..(Len(ps) + 1) }
    \cup (IF w THEN { Padded(ps, k) : k \in 1..Len(ps) } ELSE {})

\* a recognized key a second time, in each dictionary
DuplicateFilesOf(w) ==
    { FileOf(VDict(t)) : t \in UNION { Doubled(w, x) : x \in Tops(w) } }
    \cup
    { FileOf(VDict(TopOf(w, i))) : i \in UNION { Doubled(w, x) : x \in Infos(w) } }
    \cup
    { FileOf(VDict(TopOf(w, SortPairs(<<P_files(w, <<VDict(it)>>), P_name(w),
                                        P_pieces(w)>>)))) :
        it \in Doubled(w, ItemPairs(w)) \cup Doubled(w, <<P_item_path(w)>>) }

DuplicateFiles == DuplicateFilesOf(FALSE) \cup DuplicateFilesOf(TRUE)

\* "length" and "files" both present (every order), or neither
ExclusiveFilesOf(w) ==
    { FileOf(VDict(TopOf(w, i))) :
        i \in UNION { Perms(<<f, P_length(w)>> \o rest) :
                        f \in { P_files(w, <<>>), P_files(w, <<VDict(ItemPairs(w))>>) },
                        rest \in { <<P_name(w), P_piece_length(w), P_pieces(w)>>,
                                   <<P_name(w), P_pieces(w)>>, <<>> } } }
    \cup
    { FileOf(VDict(TopOf(w, i))) :
        i \in Perms(<<P_name(w), P_piece_length(w), P_pieces(w)>>) }

ExclusiveFiles == ExclusiveFilesOf(FALSE) \cup ExclusiveFilesOf(TRUE)

\* values of every kind for a key that is not recognized
ExtraValues ==
    { VBytes(B_a), VInt(7), VDict(<<>>),
      VDict(<<Pair(B_a, VInt(1)), Pair(B_b, VList(<<>>))>>),
      VList(<<VDict(<<Pair(K_name, VInt(1))>>), VBytes(B_b)>>) }
    \cup { Nested(k) : k \in 1..MaxNest }

\* the pairs under a key that is not recognized, in both forms of the key
ExtraPairs == { Pair(k, x) : k \in {K_comment, Wrapped(K_comment)}, x \in ExtraValues }

\* every way of putting an unrecognized pair into ps
Extended(ps) == { InsertAt(ps, at, x) : at \in 1..(Len(ps) + 1), x \in ExtraPairs }

\* an unrecognized pair at every position of each dictionary
UnknownKeyFilesOf(w) ==
    { FileOf(VDict(t)) : t \in UNION { Extended(TopOf(w, i)) : i \in Infos(w) } }
    \cup
    { FileOf(VDict(TopOf(w, i))) : i \in UNION { Extended(x) : x \in Infos(w) } }
    \cup
    { FileOf(VDict(TopOf(w, SortPairs(<<P_files(w, <<VDict(it)>>), P_name(w),
                                        P_pieces(w)>>)))) :
        it \in Extended(ItemPairs(w)) \cup Extended(<<P_item_path(w)>>) }

UnknownKeyFiles == UnknownKeyFilesOf(FALSE) \cup UnknownKeyFilesOf(TRUE)

\* bytes after the top-level dictionary
Trails ==
    { <<97>>, <<Ch_e>>, <<Ch_l>>, <<Ch_d>>, <<Ch_0>>, Enc(B_a), Enc(<<>>),
      Encode(VInt(0)), Encode(VList(<<>>)), Encode(VDict(<<>>)),
      Encode(VInt(1)) \o Encode(VInt(2)) }

TrailingFilesOf(w) ==
    { [doc |-> VDict(t), cut |-> 0, trail |-> tr] :
        t \in Tops(w)
              \cup { <<>>, <<P_info(w, SingleInfo(w))>>, TopOf(w, <<P_name(w)>>),
                     TopOf(w, SortPairs(<<P_files(w, <<>>), P_length(w), P_name(w),
                                          P_pieces(w)>>)),
                     SortPairs(<<P_announce(w), Pair(Form(w, K_comment), Nested(MaxNest))>>) },
        tr \in Trails }

TrailingFiles == TrailingFilesOf(FALSE) \cup TrailingFilesOf(TRUE)

\* "pieces" strings of lengths around the multiples of 20
PiecesFilesOf(w) ==
    { FileOf(VDict(TopOf(w, SortPairs(<<f, P_name(w),
                                        Pair(Form(w, K_pieces), VBytes(BytesOfLen(n)))>>)))) :
        f \in { P_files(w, <<>>), P_piece_length(w) },
        n \in {0, 19, 20, 21, 40} }

\* required keys left out, at each level
MissingFilesOf(w) ==
    { FileOf(VDict(t)) :
        t \in UNION { SubSeqs(TopOf(w, i)) :
                        i \in UNION { SubSeqs(x) : x \in Infos(w) } } }
    \cup
    { FileOf(VDict(TopOf(w, SortPairs(<<P_files(w, [j \in 1..Len(q) |-> VDict(q[j])]),
                                        P_name(w), P_pieces(w)>>)))) :
        q \in SeqsUpTo(SubSeqs(ItemPairs(w)), MaxFiles) }

\* values of each kind, for a recognized key
KindValues ==
    { VBytes(B_a), VBytes(Wrapped(B_a)), VBytes(<<>>), VBytes(<<255>>),
      VBytes(Wrapped(<<255>>)), VBytes(Encode(VInt(1))), VBytes(Wrapped(B_a) \o B_b),
      VInt(1), VInt(0), VInt(-1),
      VList(<<>>), VDict(<<>>), VList(<<VInt(1)>>), VList(<<VBytes(B_a)>>),
      VList(<<VBytes(Wrapped(B_a)), VBytes(Wrapped(<<255>>))>>),
      VList(<<VList(<<>>)>>) }

\* keys of each kind
KindKeys ==
    { <<>>, <<255>>, Wrapped(<<>>), Wrapped(<<255>>), Encode(VInt(1)),
      Encode(VList(<<>>)), <<Ch_e>>, <<Ch_0>>, <<Ch_0, Ch_0, Ch_colon>>,
      Wrapped(K_name) \o B_b }

KindFilesOf(w) ==
    { FileOf(VDict(<<Pair(Form(w, k), x)>>)) : k \in {K_announce, K_info}, x \in KindValues }
    \cup
    { FileOf(VDict(<<P_info(w, SortPairs(<<Pair(Form(w, k), x)>>
                                           \o (IF k = K_name THEN <<>> ELSE <<P_name(w)>>)))>>)) :
        k \in {K_name, K_piece_length, K_pieces, K_length, K_files}, x \in KindValues }
    \cup
    { FileOf(VDict(<<P_info(w, SortPairs(<<P_files(w, <<VDict(<<Pair(Form(w, k), x)>>)>>),
                                           P_name(w)>>))>>)) :
        k \in {K_length, K_path}, x \in KindValues }
    \cup
    { FileOf(VDict(SortPairs(<<Pair(k, VBytes(Form(w, B_a))), P_announce(w)>>))) :
        k \in KindKeys }

\* buffers that are no complete dictionary: cut short, empty, another value
RawFilesOf(w) ==
    { [doc |-> VDict(TopOf(w, PathInfo(w))), cut |-> c, trail |-> <<>>] :
        c \in 1..Len(Encode(VDict(TopOf(w, PathInfo(w))))) }
    \cup { FileOf(x) : x \in KindValues }
    \cup { [doc |-> VDict(<<>>), cut |-> 1, trail |-> Encode(VInt(1)) \o <<Ch_e>>] }

Files ==
    OrderFiles \cup DuplicateFiles \cup ExclusiveFiles \cup UnknownKeyFiles
    \cup TrailingFiles
    \cup UNION { PiecesFilesOf(w) \cup MissingFilesOf(w) \cup KindFilesOf(w)
                 \cup RawFilesOf(w) : w \in BOOLEAN }

(***************************************************************************)
(* TorrentFile::new as a process: read the file, map it, validate it.      *)
(***************************************************************************)
NoResult == [kind |-> "none", err |-> "", ctx |-> <<>>, val |-> NoVal,
             d |-> NewDecoder(max_depth)]
M_Io     == "io error"

\* main is not running: its variables hold nothing
MainIdle ==
    /\ args = [surface |-> FALSE, no_confirm |-> FALSE, empty_dir |-> FALSE,
               diff |-> FALSE]
    /\ torrent = [kind |-> "none", files |-> [some |-> FALSE, v |-> <<>>]]
    /\ tree = <<>>
    /\ files_map = <<>>
    /\ surface_files = {}
    /\ dirs = {}
    /\ old_files = {}
    /\ empty_dirs = {}
    /\ confirmed = FALSE
    /\ removed = {}

Init ==
    /\ file \in Files
    /\ buf = <<>>
    /\ pc = "open"
    /\ parsed = NoResult
    /\ result = NoResult
    /\ MainIdle

\* File::open(&file)?.read_to_end(&mut buf)? succeeds
ReadFile ==
    /\ pc = "open"
    /\ buf' = Content(file)
    /\ pc' = "parse"
    /\ UNCHANGED <<file, parsed, result>>
    /\ UNCHANGED main_vars

\* File::open or read_to_end fails: the io error is returned
ReadFails ==
    /\ pc = "open"
    /\ result' = Err(M_Io, NewDecoder(max_depth))
    /\ pc' = "done"
    /\ UNCHANGED <<file, buf, parsed>>
    /\ UNCHANGED main_vars

\* Self::parse_torrent(buf).with_context(..)?
ParseTorrent ==
    /\ pc = "parse"
    /\ parsed' = TorrentFile_parse_torrent(buf)
    /\ IF parsed'.kind = "ok"
       THEN pc' = "validate" /\ result' = result
       ELSE pc' = "done" /\ result' = Context(parsed', C_File)
    /\ UNCHANGED <<file, buf>>
    /\ UNCHANGED main_vars

\* .validate_torrent()
ValidateTorrent ==
    /\ pc = "validate"
    /\ result' = validate_torrent(parsed.val)
    /\ pc' = "done"
    /\ UNCHANGED <<file, buf, parsed>>
    /\ UNCHANGED main_vars

\* The steps of TorrentFile::new a file's bytes lead to.  No file of the
\* analysis makes parse_torrent return a TorrentFile (an integer is never
\* read), so the validating step is left to SpecValidate below.
Next == ReadFile \/ ReadFails \/ ParseTorrent

Spec == Init /\ [][Next]_vars

(***************************************************************************)
(* validate_torrent as a function of the TorrentFile it is given: the      *)
(* values parse_torrent's Ok can carry, and the validating step on each.   *)
(***************************************************************************)
NoFile == FileOf(VDict(<<>>))

Entries ==
    { [length |-> l, path |-> p] : l \in {0, 5}, p \in { <<>>, <<B_a>>, <<B_a, B_b>> } }

FileLists ==
    { Single(l) : l \in {0, 100} }
    \cup { Multiple(q) : q \in SeqsUpTo(Entries, MaxFiles) }

TorrentFiles ==
    { [announce |-> B_url,
       info |-> [name |-> B_pkg, piece_length |-> pl,
                 pieces |-> [i \in 1..n |-> BytesOfLen(20)], file_list |-> fl]] :
        pl \in {0, 16384}, n \in 0..2, fl \in FileLists }

InitValidate ==
    /\ file = NoFile
    /\ buf = <<>>
    /\ pc = "validate"
    /\ parsed \in { Ok(t, NewDecoder(max_depth)) : t \in TorrentFiles }
    /\ result = NoResult
    /\ MainIdle

NextValidate == ValidateTorrent

SpecValidate == InitValidate /\ [][NextValidate]_vars

(***************************************************************************)
(* The "pieces" arm as a function of the byte string it is given (buf).    *)
(***************************************************************************)
PiecesInputs ==
    { [i \in 1..n |-> (i * m) % 256] : n \in 0..MaxPieces, m \in {0, 1, 7} }

InitPieces ==
    /\ file = NoFile
    /\ buf \in PiecesInputs
    /\ pc = "pieces"
    /\ parsed = NoResult
    /\ result = NoResult
    /\ MainIdle

\* Object::Bytes(s) under "pieces": the length check and the chunking
ChunkPieces ==
    /\ pc = "pieces"
    /\ parsed' = ParsePieces(buf, NewDecoder(max_depth))
    /\ pc' = "chunked"
    /\ UNCHANGED <<file, buf, result>>
    /\ UNCHANGED main_vars

NextPieces == ChunkPieces

SpecPieces == InitPieces /\ [][NextPieces]_vars

(***************************************************************************)
(* What a file's content says, read off its description: the dictionaries  *)
(* the mappers walk (top level, "info", the "files" entries), with the     *)
(* position of each one's first byte in the buffer.                        *)
(***************************************************************************)
\* the text a key's bytes stand for: what the mapper reads from them, and
\* the bytes themselves where it reads nothing (the plain form)
Meaning(k) ==
    With(String_from_bencode(k), LAMBDA s : IF s.ok THEN s.v ELSE k)

\* bytes taken by the pairs before pair i of a dictionary
RECURSIVE PairsLen(_, _)
PairsLen(ps, i) ==
    IF i <= 1 THEN 0
    ELSE PairsLen(ps, i - 1) + Len(Enc(ps[i - 1].key)) + Len(Encode(ps[i - 1].val))

\* bytes taken by the elements before element i of a list
RECURSIVE ElemsLen(_, _)
ElemsLen(l, i) ==
    IF i <= 1 THEN 0 ELSE ElemsLen(l, i - 1) + Len(Encode(l[i - 1]))

\* position of the value of pair i of the dictionary that starts at start
ValueAt(start, ps, i) == start + 1 + PairsLen(ps, i) + Len(Enc(ps[i].key))

TopDict(doc) == [level |-> "top", pairs |-> doc.items, start |-> 1]

InfoDicts(doc) ==
    { [level |-> "info", pairs |-> doc.items[i].val.items,
       start |-> ValueAt(1, doc.items, i)] :
        i \in { j \in 1..Len(doc.items) :
                  Meaning(doc.items[j].key) = K_info /\ doc.items[j].val.t = "dict" } }

ItemDicts(doc) ==
    UNION { UNION { { [level |-> "item", pairs |-> D.pairs[i].val.items[e].items,
                       start |-> ValueAt(D.start, D.pairs, i) + 1
                                 + ElemsLen(D.pairs[i].val.items, e)] :
                        e \in { x \in 1..Len(D.pairs[i].val.items) :
                                  D.pairs[i].val.items[x].t = "dict" } } :
                    i \in { j \in 1..Len(D.pairs) :
                              Meaning(D.pairs[j].key) = K_files
                              /\ D.pairs[j].val.t = "list" } } :
            D \in InfoDicts(doc) }

MappedDicts(doc) ==
    IF doc.t # "dict" THEN {}
    ELSE {TopDict(doc)} \cup InfoDicts(doc) \cup ItemDicts(doc)

\* position of the End byte of a mapped dictionary
EndOf(D) == D.start + 1 + PairsLen(D.pairs, Len(D.pairs) + 1)

KeysOf(D) == { Meaning(D.pairs[i].key) : i \in 1..Len(D.pairs) }

Recognized(level) ==
    IF level = "top" THEN {K_announce, K_info}
    ELSE IF level = "info" THEN {K_name, K_piece_length, K_pieces, K_length, K_files}
    ELSE {K_length, K_path}

\* a recognized key occurs twice in D
HasDuplicate(D) ==
    \E i, j \in 1..Len(D.pairs) :
        /\ i < j
        /\ Meaning(D.pairs[i].key) = Meaning(D.pairs[j].key)
        /\ Meaning(D.pairs[i].key) \in Recognized(D.level)

\* the keys of D are in strictly ascending byte order
Ascending(D) ==
    \A i \in 1..(Len(D.pairs) - 1) : BytesLess(D.pairs[i].key, D.pairs[i + 1].key)

\* how deep the lists and dictionaries of v nest
RECURSIVE Depth(_)
RECURSIVE DepthOfItems(_, _)
Depth(v) ==
    IF v.t \in {"bytes", "int"} THEN 0
    ELSE 1 + DepthOfItems(v.items, v.t = "dict")
DepthOfItems(items, pairs) ==
    IF items = <<>> THEN 0
    ELSE LET h == Depth(IF pairs THEN Head(items).val ELSE Head(items))
             r == DepthOfItems(Tail(items), pairs)
         IN  IF h >= r THEN h ELSE r

\* v with the pairs of every dictionary in ascending key order
RECURSIVE Canonical(_)
Canonical(v) ==
    IF v.t = "list" THEN VList([i \in 1..Len(v.items) |-> Canonical(v.items[i])])
    ELSE IF v.t = "dict" THEN
        VDict(SortPairs([i \in 1..Len(v.items) |->
                            Pair(v.items[i].key, Canonical(v.items[i].val))]))
    ELSE v

\* ps without the pairs whose key stands for k
RECURSIVE WithoutKey(_, _)
WithoutKey(ps, k) ==
    IF ps = <<>> THEN <<>>
    ELSE (IF Meaning(Head(ps).key) = k THEN <<>> ELSE <<Head(ps)>>)
         \o WithoutKey(Tail(ps), k)

\* v with the pairs keyed k taken out of every dictionary
RECURSIVE Strip(_, _)
Strip(v, k) ==
    IF v.t = "list" THEN VList([i \in 1..Len(v.items) |-> Strip(v.items[i], k)])
    ELSE IF v.t = "dict" THEN
        LET ps == WithoutKey(v.items, k)
        IN  VDict([i \in 1..Len(ps) |-> Pair(ps[i].key, Strip(ps[i].val, k))])
    ELSE v

\* what parse_torrent makes of the file whose content is the value v
MappingOf(v) == TorrentFile_parse_torrent(Content(FileOf(v)))

\* two mapping outcomes are the same outcome
SameOutcome(r, q) == r.kind = q.kind /\ r.err = q.err /\ r.ctx = q.ctx /\ r.val = q.val

\* the file is one whole dictionary and nothing else
WholeDict(f) == f.doc.t = "dict" /\ f.cut = 0 /\ f.trail = <<>>

\* TorrentFile::parse_torrent has returned (or ended the process)
Mapped == pc \in {"validate", "done"} /\ parsed.kind # "none"

(***************************************************************************)
(* The claims.                                                             *)
(***************************************************************************)

\* C1: when a recognized key occurs a second time in a mapped dictionary
\* (top level, "info", a "files" entry), the mapping ends by returning the
\* duplicate-key error to the caller, and in no other way.  (The formula asks
\* only for the error's kind, not for the key it should name.)
C1_DuplicateKeyErrorReturned ==
    (Mapped /\ WholeDict(file) /\ \E D \in MappedDicts(file.doc) : HasDuplicate(D))
        => (parsed.kind = "err" /\ parsed.err = M_Duplicate)

\* the "info" dictionary D holds both "length" and "files", or holds "name",
\* "piece_length" and "pieces" and neither of the two
BothOrNeither(D) ==
    \/ {K_length, K_files} \subseteq KeysOf(D)
    \/ /\ {K_name, K_piece_length, K_pieces} \subseteq KeysOf(D)
       /\ KeysOf(D) \cap {K_length, K_files} = {}

\* C2: when an "info" dictionary holds both "length" and "files", or neither
\* of them beside the other required keys, the mapping returns the dedicated
\* exactly-one-of-length/files error.
C2_ExclusiveKeyErrorReturned ==
    (Mapped /\ file \in ExclusiveFiles
     /\ \E D \in InfoDicts(file.doc) : BothOrNeither(D))
        => (parsed.kind = "err" /\ parsed.err = M_NoLengthOrFiles)

\* C3: decoding enforces a maximum nesting depth: an input nested deeper than
\* the maximum is answered with the nesting-too-deep error, so no decode
\* nests deeper than the process can hold.
C3_NestingDepthBounded ==
    Mapped => /\ parsed.kind # "abort"
              /\ (WholeDict(file) /\ Depth(file.doc) > ResourceDepth)
                  => (parsed.kind = "err" /\ parsed.err = E_TooDeep)

\* C4: a buffer that is a well-formed top-level dictionary followed by one or
\* more further bytes makes parse_torrent return an error, never a
\* TorrentFile, whether or not the dictionary has all required keys.
C4_TrailingDataIsError ==
    (Mapped /\ file.doc.t = "dict" /\ file.cut = 0 /\ file.trail # <<>>)
        => parsed.kind = "err"

\* C5: the mapper is independent of key order: every ordering of the pairs
\* of a valid dictionary (at the top level, in "info", in a "files" entry)
\* decodes to the same successful model as the ascending ordering.
C5_OrderIndependent ==
    (Mapped /\ file \in OrderFiles)
        => (parsed.kind = "ok" /\ SameOutcome(parsed, MappingOf(Canonical(file.doc))))

\* C6: an unrecognized pair, whatever its value and wherever it stands in a
\* mapped dictionary, leaves the outcome what it is without the pair.
C6_UnrecognizedKeyIgnored ==
    (Mapped /\ file \in UnknownKeyFiles)
        => SameOutcome(parsed, MappingOf(Strip(file.doc, K_comment)))

\* the invariants of the domain model (spec section 3)
ModelInvariants(t) ==
    /\ Len(t.info.pieces) > 0
    /\ t.info.piece_length # 0
    /\ t.info.file_list.tag = "Single" => t.info.file_list.length # 0
    /\ t.info.file_list.tag = "Multiple" =>
           /\ Len(t.info.file_list.files) > 0
           /\ \A i \in 1..Len(t.info.file_list.files) :
                  /\ Len(t.info.file_list.files[i].path) > 0
                  /\ t.info.file_list.files[i].length # 0

\* C7: every TorrentFile that TorrentFile::new returns satisfies the model
\* invariants, and a TorrentFile that was mapped but violates one of them
\* yields an error, not a value.
C7_ReturnedModelValid ==
    (pc = "done" /\ parsed.kind = "ok") =>
        /\ result.kind \in {"ok", "err"}
        /\ result.kind = "ok" => (result.val = parsed.val /\ ModelInvariants(result.val))
        /\ ~ModelInvariants(parsed.val) => (result.kind = "err" /\ result.val = NoVal)

\* a multi-file TorrentFile of two entries was validated and returned
C7_Witness ==
    /\ pc = "done"
    /\ parsed.kind = "ok"
    /\ result.kind = "ok"
    /\ result.val.info.file_list.tag = "Multiple"
    /\ Len(result.val.info.file_list.files) = 2

\* the dictionary level and the keys a missing-key message speaks of
MissingMsgs ==
    { M_NoAnnounce, M_NoInfo, M_NoName, M_NoPieceLength, M_NoPieces,
      M_NoLengthOrFiles, M_NoItemLength, M_NoItemPath }

MissingLevel(msg) ==
    IF msg \in {M_NoAnnounce, M_NoInfo} THEN "top"
    ELSE IF msg \in {M_NoItemLength, M_NoItemPath} THEN "item"
    ELSE "info"

MissingKeys(msg) ==
    IF msg = M_NoAnnounce THEN {K_announce}
    ELSE IF msg = M_NoInfo THEN {K_info}
    ELSE IF msg = M_NoName THEN {K_name}
    ELSE IF msg = M_NoPieceLength THEN {K_piece_length}
    ELSE IF msg = M_NoPieces THEN {K_pieces}
    ELSE IF msg = M_NoLengthOrFiles THEN {K_length, K_files}
    ELSE IF msg = M_NoItemLength THEN {K_length}
    ELSE {K_path}

\* decoder stack entries left when a dictionary of the level is finished
DepthOutside(level) == IF level = "top" THEN 0 ELSE IF level = "info" THEN 1 ELSE 3

\* D holds every key its level requires
HasRequired(D) ==
    IF D.level = "top" THEN {K_announce, K_info} \subseteq KeysOf(D)
    ELSE IF D.level = "info" THEN
        /\ {K_name, K_piece_length, K_pieces} \subseteq KeysOf(D)
        /\ KeysOf(D) \cap {K_length, K_files} # {}
    ELSE {K_length, K_path} \subseteq KeysOf(D)

\* C8: a missing required key is reported only once the dictionary that
\* should hold it has been consumed to its end (for the top level: to the end
\* of the buffer), the error names a key that dictionary does not hold, and
\* no value is returned for a descriptor in which a required key is absent.
C8_MissingKeyAfterDictionary ==
    Mapped =>
        /\ (parsed.kind = "err" /\ parsed.err \in MissingMsgs) =>
               /\ parsed.val = NoVal
               /\ \E D \in MappedDicts(file.doc) :
                      /\ D.level = MissingLevel(parsed.err)
                      /\ KeysOf(D) \cap MissingKeys(parsed.err) = {}
                      /\ EndOf(D) <= Len(buf)
                      /\ buf[EndOf(D)] = Ch_e
                      /\ parsed.d.pos = EndOf(D) + 1
                      /\ D.level = "top" => parsed.d.pos = Len(buf) + 1
                      /\ Len(parsed.d.state) = DepthOutside(D.level)
        /\ parsed.kind = "ok" =>
               /\ WholeDict(file)
               /\ \A D \in MappedDicts(file.doc) : HasRequired(D)

\* a "files" entry without "length" was reported
C8_Witness ==
    /\ Mapped
    /\ parsed.kind = "err"
    /\ parsed.err = M_NoItemLength
    /\ parsed.ctx = <<C_Info, C_FilesElem>>
    /\ \E D \in ItemDicts(file.doc) : K_path \in KeysOf(D)

\* the chunks laid end to end
RECURSIVE Flatten(_)
Flatten(chunks) == IF chunks = <<>> THEN <<>> ELSE Head(chunks) \o Flatten(Tail(chunks))

\* C9: a "pieces" byte string whose length n is no multiple of 20 makes the
\* mapper fail with the pieces-length error and without any pieces value;
\* when n is a multiple of 20 the value holds exactly n/20 pieces, piece i
\* being bytes [20*i, 20*i+20) of the string, so that the pieces laid end to
\* end are the string.
C9_PiecesChunking ==
    pc = "chunked" =>
        /\ Len(buf) % 20 # 0 =>
               (parsed.kind = "err" /\ parsed.err = M_BadPiecesLength
                /\ parsed.val = NoVal)
        /\ Len(buf) % 20 = 0 =>
               /\ parsed.kind = "ok"
               /\ Len(parsed.val) = Len(buf) \div 20
               /\ \A i \in 1..Len(parsed.val) :
                      parsed.val[i] = [j \in 1..20 |-> buf[20 * (i - 1) + j]]
               /\ Flatten(parsed.val) = buf

\* a 40-byte string of distinct bytes was made into two pieces
C9_Witness ==
    /\ pc = "chunked"
    /\ Len(buf) = 40
    /\ buf[1] # buf[21]
    /\ parsed.kind = "ok"
    /\ Len(parsed.val) = 2

\* the validator's checks in the order of spec section 4.4: pieces,
\* piece_length, then the file list (each entry's path, then its length)
ChecksInOrder(t) ==
    LET fl == t.info.file_list
    IN  << [bad |-> Len(t.info.pieces) = 0, msg |-> V_PiecesEmpty],
           [bad |-> t.info.piece_length = 0, msg |-> V_PieceLengthZero] >>
        \o (IF fl.tag = "Single"
            THEN << [bad |-> fl.length = 0, msg |-> V_LengthZero] >>
            ELSE << [bad |-> Len(fl.files) = 0, msg |-> V_FilesEmpty] >>
                 \o [k \in 1..(2 * Len(fl.files)) |->
                        IF k % 2 = 1
                        THEN [bad |-> Len(fl.files[(k + 1) \div 2].path) = 0,
                              msg |-> V_PathEmpty]
                        ELSE [bad |-> fl.files[k \div 2].length = 0,
                              msg |-> V_ItemLengthZero]])

Failing(t) == { k \in 1..Len(ChecksInOrder(t)) : ChecksInOrder(t)[k].bad }

FirstFailing(t) ==
    IF Failing(t) = {} THEN ""
    ELSE ChecksInOrder(t)[CHOOSE k \in Failing(t) : \A m \in Failing(t) : k <= m].msg

\* C10: the validator reports the first failing check of the fixed order
\* (pieces, piece_length, file list; a Multiple list entry by entry, path
\* before length), and no error when no check fails.
C10_FirstFailingCheckReported ==
    (pc = "done" /\ parsed.kind = "ok") =>
        /\ result.err = FirstFailing(parsed.val)
        /\ result.kind = (IF Failing(parsed.val) = {} THEN "ok" ELSE "err")

\* a model whose second entry fails both entry checks and whose first entry
\* fails the later one was answered with the first entry's error
C10_Witness ==
    /\ pc = "done"
    /\ parsed.kind = "ok"
    /\ Cardinality(Failing(parsed.val)) >= 3
    /\ parsed.val.info.file_list.tag = "Multiple"
    /\ result.kind = "err"
    /\ result.err = V_ItemLengthZero

(***************************************************************************)
(* main (src/src/main.rs): the command line tool.  It takes the decoded    *)
(* descriptor, walks the directory `dir`, and in delete mode removes what  *)
(* the descriptor does not expect, in diff mode prints it.                 *)
(*                                                                         *)
(* A name is a byte string without separator; a path is its sequence of    *)
(* components (names) and whether it is absolute.  The paths of the walk   *)
(* and of find_empty_dirs are absolute (dir joined with the entry), the    *)
(* paths built from the descriptor are relative.  A segment of an entry's  *)
(* path is a text, which may hold separators: it is the sequence of the    *)
(* names it holds.                                                         *)
(***************************************************************************)
\* most entries of the decoded file list
MaxEntries == 2

\* dir.join(c): the absolute path of the entry at components c below `dir`
AbsPath(c) == [abs |-> TRUE, comps |-> c]
\* a path relative to the current directory
RelPath(c) == [abs |-> FALSE, comps |-> c]

\* the places of `dir` an entry can be at, as components below `dir`
DiskPaths == { <<B_a>>, <<B_b>>, <<B_a, B_a>>, <<B_a, B_b>> }

\* nothing there, a regular file, a directory
Kinds == {"none", "file", "dir"}

\* p is below q
Below(p, q) == Len(p) > Len(q) /\ SubSeq(p, 1, Len(q)) = q

\* the directory trees: what holds an entry is a directory
Trees ==
    { t \in [DiskPaths -> Kinds] :
        \A p \in DiskPaths :
            (Len(p) > 1 /\ t[p] # "none") => t[SubSeq(p, 1, Len(p) - 1)] = "dir" }

\* the entries of the directory at components p (<<>> for `dir` itself)
Children(t, p) == { q \in DiskPaths : Len(q) = Len(p) + 1 /\ Below(q, p) /\ t[q] # "none" }

\* check_dir_kind_of_empty: no file anywhere below p
RECURSIVE check_dir_kind_of_empty(_, _)
check_dir_kind_of_empty(t, p) ==
    \A q \in Children(t, p) : t[q] = "dir" /\ check_dir_kind_of_empty(t, q)

\* find_empty_dirs: every directory below p that holds no file
RECURSIVE find_empty_dirs(_, _)
find_empty_dirs(t, p) ==
    UNION { (IF check_dir_kind_of_empty(t, q) THEN {AbsPath(q)} ELSE {})
            \cup find_empty_dirs(t, q) :
              q \in { c \in Children(t, p) : t[c] = "dir" } }

\* the texts of path segments: "a", "b", and "a/b" holding a separator
Segments == { <<B_a>>, <<B_b>>, <<B_a, B_b>> }

\* PathBuf::from_iter(&segs): the segments pushed one after the other; the
\* path's components are the names of all segments
RECURSIVE from_iter(_)
from_iter(segs) == IF segs = <<>> THEN <<>> ELSE Head(segs) \o from_iter(Tail(segs))

\* list_recursive_dirs(segs): the path after each push
list_recursive_dirs(segs) ==
    { RelPath(from_iter(SubSeq(segs, 1, k))) : k \in 1..Len(segs) }

\* Ord of paths: by components
RECURSIVE PathLess(_, _)
PathLess(p, q) ==
    IF q = <<>> THEN FALSE
    ELSE IF p = <<>> THEN TRUE
    ELSE IF Head(p) # Head(q) THEN BytesLess(Head(p), Head(q))
    ELSE PathLess(Tail(p), Tail(q))

\* the entry paths of the decoded file lists
EntryPaths ==
    { <<>>, <<<<B_a>>>>, <<<<B_b>>>>, <<<<B_a>>, <<B_a>>>>, <<<<B_a>>, <<B_b>>>>,
      <<<<B_a, B_b>>>>, <<<<B_a>>, <<>>>> }

\* what parse_torrent(&spinner, path) can hand to main: an error, or a
\* torrent whose info.files is None or Some(vec) of entries {path, length}
NoFiles == [some |-> FALSE, v |-> <<>>]

ParseResults ==
    { [kind |-> "err", files |-> NoFiles], [kind |-> "ok", files |-> NoFiles] }
    \cup { [kind |-> "ok", files |-> Some(v)] :
             v \in SeqsUpTo({ [path |-> p, length |-> 5] : p \in EntryPaths }, MaxEntries) }

\* the map `files` after the loop over vec: insert replaces an equal key
RECURSIVE FilesOf(_)
FilesOf(vec) ==
    IF vec = <<>> THEN <<>>
    ELSE LET rest == FilesOf(SubSeq(vec, 1, Len(vec) - 1))
             f    == vec[Len(vec)]
             key  == RelPath(from_iter(f.path))
         IN  [k \in DOMAIN rest \cup {key} |-> IF k = key THEN f.length ELSE rest[k]]

InitMain ==
    /\ file = NoFile
    /\ buf = <<>>
    /\ parsed = NoResult
    /\ result = NoResult
    /\ pc = "main"
    /\ args \in [surface : BOOLEAN, no_confirm : BOOLEAN, empty_dir : BOOLEAN,
                 diff : BOOLEAN]
    /\ torrent \in ParseResults
    /\ tree \in Trees
    /\ files_map = <<>>
    /\ surface_files = {}
    /\ dirs = {}
    /\ old_files = {}
    /\ empty_dirs = {}
    /\ confirmed = FALSE
    /\ removed = {}

\* lines 65-84: `result?`, then the maps from torrent.info.files; an error
\* (parse error, no file list, an entry with an empty path) ends main
Decode ==
    /\ pc = "main"
    /\ IF \/ torrent.kind = "err"
          \/ ~torrent.files.some
          \/ \E i \in 1..Len(torrent.files.v) : torrent.files.v[i].path = <<>>
       THEN /\ pc' = "failed"
            /\ UNCHANGED <<files_map, surface_files, dirs>>
       ELSE /\ pc' = "walk"
            /\ files_map' = FilesOf(torrent.files.v)
            /\ surface_files' =
                   { Head(torrent.files.v[i].path) : i \in 1..Len(torrent.files.v) }
            /\ dirs' = UNION { list_recursive_dirs(torrent.files.v[i].path) :
                                 i \in 1..Len(torrent.files.v) }
    /\ UNCHANGED decode_vars
    /\ UNCHANGED <<args, torrent, tree, old_files, empty_dirs, confirmed, removed>>

\* Stale with the test against `files` left out
Stale_Unfiltered(p) ==
    args.surface \/ <<Head(p)>> \in surface_files

\* the entry at p is one the walk takes for removal (lines 94-95)
Stale(p) ==
    /\ args.surface \/ <<Head(p)>> \in surface_files
    /\ RelPath(p) \notin DOMAIN files_map

\* lines 86-109: the walk over `dir`
Walk ==
    /\ pc = "walk"
    /\ old_files' = { AbsPath(p) : p \in { q \in DiskPaths : tree[q] = "file" /\ Stale(q) } }
    /\ empty_dirs' =
           { AbsPath(p) :
               p \in { q \in DiskPaths : /\ tree[q] = "dir" /\ Stale(q)
                                         /\ args.empty_dir
                                         /\ check_dir_kind_of_empty(tree, q) } }
    /\ pc' = "mode"
    /\ UNCHANGED decode_vars
    /\ UNCHANGED <<args, torrent, tree, files_map, surface_files, dirs, confirmed, removed>>

\* an entry of the walk or its metadata cannot be read: the error is returned
WalkFails ==
    /\ pc = "walk"
    /\ pc' = "failed"
    /\ UNCHANGED decode_vars
    /\ UNCHANGED main_vars

\* lines 119-152: the diff subcommand prints the changes
Diff ==
    /\ pc = "mode"
    /\ args.diff
    /\ pc' = "exit"
    /\ UNCHANGED decode_vars
    /\ UNCHANGED main_vars

\* lines 156-168: delete mode, nothing to remove was found
NoEntries ==
    /\ pc = "mode"
    /\ ~args.diff
    /\ old_files = {}
    /\ pc' = IF args.empty_dir THEN "dirs" ELSE "exit"
    /\ UNCHANGED decode_vars
    /\ UNCHANGED main_vars

\* lines 170-197: delete mode, the list is printed and, without
\* --no-confirm, the user is asked; any answer but yes ends main
Prompt ==
    /\ pc = "mode"
    /\ ~args.diff
    /\ old_files # {}
    /\ IF args.no_confirm
       THEN pc' = "remove" /\ confirmed' = confirmed
       ELSE \E yes \in BOOLEAN :
                /\ confirmed' = yes
                /\ pc' = IF yes THEN "remove" ELSE "exit"
    /\ UNCHANGED decode_vars
    /\ UNCHANGED <<args, torrent, tree, files_map, surface_files, dirs, old_files,
                   empty_dirs, removed>>

\* the paths that were removed
RemovedPaths == { r.path : r \in removed }

\* lines 199-204: fs::remove_file on the next entry of the list
RemoveFile ==
    /\ pc = "remove"
    /\ \E e \in old_files \ RemovedPaths :
           /\ tree' = [tree EXCEPT ![e.comps] = "none"]
           /\ removed' = removed \cup {[path |-> e, kind |-> tree[e.comps]]}
    /\ UNCHANGED decode_vars
    /\ UNCHANGED <<pc, args, torrent, files_map, surface_files, dirs, old_files,
                   empty_dirs, confirmed>>

\* fs::remove_file fails: the error is returned
RemoveFileFails ==
    /\ pc = "remove"
    /\ old_files \ RemovedPaths # {}
    /\ pc' = "failed"
    /\ UNCHANGED decode_vars
    /\ UNCHANGED main_vars

\* the loop is over (line 204 to 210)
FilesDone ==
    /\ pc = "remove"
    /\ old_files \ RemovedPaths = {}
    /\ pc' = IF args.empty_dir THEN "dirs" ELSE "exit"
    /\ UNCHANGED decode_vars
    /\ UNCHANGED main_vars

\* lines 210-216: the empty directories of `dir` that are not in `dirs`
FindEmptyDirs ==
    /\ pc = "dirs"
    /\ empty_dirs' = { e \in find_empty_dirs(tree, <<>>) : e \notin dirs }
    /\ pc' = "clear"
    /\ UNCHANGED decode_vars
    /\ UNCHANGED <<args, torrent, tree, files_map, surface_files, dirs, old_files,
                   confirmed, removed>>

\* the directories of the list still to be removed
DirsLeft == empty_dirs \ RemovedPaths

\* lines 217-221: fs::remove_dir_all on the next entry of the list, which
\* is sorted and reversed; it removes the directory and all below it
RemoveDir ==
    /\ pc = "clear"
    /\ \E e \in DirsLeft :
           /\ \A o \in DirsLeft : ~PathLess(e.comps, o.comps)
           /\ tree' = [p \in DiskPaths |->
                          IF p = e.comps \/ Below(p, e.comps) THEN "none" ELSE tree[p]]
           /\ removed' = removed \cup
                  { [path |-> AbsPath(p), kind |-> tree[p]] :
                      p \in { q \in DiskPaths : /\ q = e.comps \/ Below(q, e.comps)
                                                /\ tree[q] # "none" } }
    /\ UNCHANGED decode_vars
    /\ UNCHANGED <<pc, args, torrent, files_map, surface_files, dirs, old_files,
                   empty_dirs, confirmed>>

\* fs::remove_dir_all fails: the error is returned
RemoveDirFails ==
    /\ pc = "clear"
    /\ DirsLeft # {}
    /\ pc' = "failed"
    /\ UNCHANGED decode_vars
    /\ UNCHANGED main_vars

\* lines 222-231
DirsDone ==
    /\ pc = "clear"
    /\ DirsLeft = {}
    /\ pc' = "exit"
    /\ UNCHANGED decode_vars
    /\ UNCHANGED main_vars

NextMain ==
    \/ Decode \/ Walk \/ WalkFails \/ Diff \/ NoEntries \/ Prompt
    \/ RemoveFile \/ RemoveFileFails \/ FilesDone
    \/ FindEmptyDirs \/ RemoveDir \/ RemoveDirFails \/ DirsDone

SpecMain == InitMain /\ [][NextMain]_vars

(***************************************************************************)
(* C11: in delete mode (no diff subcommand) without --no-confirm, no file  *)
(* and no directory is removed unless the user has first answered yes to   *)
(* the confirmation prompt, whatever --surface and --empty-dir are and     *)
(* whether or not stale files were found.                                  *)
(***************************************************************************)
C11_NoRemovalWithoutYes ==
    (~args.diff /\ ~args.no_confirm /\ removed # {}) => confirmed

(***************************************************************************)
(* C12: a regular file whose path relative to `dir` equals the joined path *)
(* of an entry of the decoded file list is never in the removal list and   *)
(* is never deleted, for every run and every combination of flags; with    *)
(* the diff subcommand nothing is deleted at all.                          *)
(***************************************************************************)
\* the place p of `dir` is the joined path of an entry of the decoded list
Expected(p) ==
    /\ torrent.kind = "ok"
    /\ torrent.files.some
    /\ \E i \in 1..Len(torrent.files.v) : from_iter(torrent.files.v[i].path) = p

=============================================================================
